---- MODULE Spec2Model ----
(***************************************************************************)
(* Model of the OpenAPI introspection server of src/src/index.ts.          *)
(*                                                                         *)
(* Strings are sequences of UTF-16 code units (only ASCII is used), so     *)
(* that toLowerCase, toUpperCase, includes and the default sort order are  *)
(* computed and not assumed.  A JSON object is a function whose domain is  *)
(* the set of its own keys; an optional field is a key that is or is not   *)
(* in the domain.  An ordered JSON object that the code walks with         *)
(* Object.entries is a sequence of [key, value] records.                   *)
(***************************************************************************)
EXTENDS Integers, Sequences, FiniteSets, TLC

VARIABLES source, request, response, endpoints, fetches, last

vars == <<source, request, response, endpoints, fetches, last>>

(***************************************************************************)
(* Bounds of the model.                                                    *)
(***************************************************************************)
\* most operations a document declares, over all its paths
MaxOps == 2
\* most entries of one operation's tags list
MaxTags == 2

(***************************************************************************)
(* String literals of the source, as code units.                           *)
(***************************************************************************)
s_get == <<103, 101, 116>>
s_post == <<112, 111, 115, 116>>
s_put == <<112, 117, 116>>
s_patch == <<112, 97, 116, 99, 104>>
s_delete == <<100, 101, 108, 101, 116, 101>>
s_options == <<111, 112, 116, 105, 111, 110, 115>>
s_head == <<104, 101, 97, 100>>
s_trace == <<116, 114, 97, 99, 101>>
\* 'Untagged'
s_Untagged == <<85, 110, 116, 97, 103, 103, 101, 100>>
\* keys every object inherits from Object.prototype
s_constructor == <<99, 111, 110, 115, 116, 114, 117, 99, 116, 111, 114>>
s_toString == <<116, 111, 83, 116, 114, 105, 110, 103>>
\* the path-level key `parameters` of an OpenAPI path item
s_parameters == <<112, 97, 114, 97, 109, 101, 116, 101, 114, 115>>

(***************************************************************************)
(* JavaScript primitives used by the handlers.                             *)
(***************************************************************************)
\* String.prototype.toLowerCase on one ASCII code unit
LowerUnit(c) == IF c \in 65..90 THEN c + 32 ELSE c

\* String.prototype.toUpperCase on one ASCII code unit
UpperUnit(c) == IF c \in 97..122 THEN c - 32 ELSE c

toLowerCase(s) == [i \in 1..Len(s) |-> LowerUnit(s[i])]

toUpperCase(s) == [i \in 1..Len(s) |-> UpperUnit(s[i])]

\* String.prototype.includes: sub occurs in s as a contiguous substring
includes(s, sub) ==
    \E i \in 0..(Len(s) - Len(sub)) :
        \A j \in 1..Len(sub) : s[i + j] = sub[j]

\* Array.prototype.includes on an array of strings: strict equality
arrayIncludes(arr, x) == \E i \in 1..Len(arr) : arr[i] = x

\* order of the default Array.prototype.sort: code units, left to right
StrLess(a, b) ==
    \/ /\ Len(a) < Len(b)
       /\ \A i \in 1..Len(a) : a[i] = b[i]
    \/ \E i \in 1..(IF Len(a) < Len(b) THEN Len(a) ELSE Len(b)) :
        /\ a[i] < b[i]
        /\ \A j \in 1..(i - 1) : a[j] = b[j]

RECURSIVE sort(_)
\* Array.from(set).sort(): the strings of S in ascending order
sort(S) ==
    IF S = {} THEN <<>>
    ELSE LET m == CHOOSE x \in S : \A y \in S \ {x} : StrLess(x, y)
         IN  <<m>> \o sort(S \ {m})

\* the value `undefined`
Undefined == [kind |-> "undefined"]

\* the built-in function object reached through Object.prototype
Builtin == [kind |-> "function"]

EmptyObj == [k \in {} |-> k]

\* an object with the one key k
Obj(k, v) == k :> v

\* obj[key] on an ordinary object: an own key, else a key inherited from
\* Object.prototype, else undefined
Get(obj, key) ==
    IF key \in DOMAIN obj THEN obj[key]
    ELSE IF key \in {s_constructor, s_toString} THEN Builtin
    ELSE Undefined

\* truthiness of a string
NonEmpty(s) == Len(s) > 0

\* the fields fs of o that o has
Pick(o, fs) == [f \in (fs \cap DOMAIN o) |-> o[f]]

Has(o, f) == f \in DOMAIN o

(***************************************************************************)
(* The engine: index, tags, lookup.                                        *)
(***************************************************************************)
\* the methods array of extractEndpoints and extractTags, in its order
methods == <<s_get, s_post, s_put, s_patch, s_delete, s_options, s_head, s_trace>>

RECURSIVE Flatten(_)
\* concatenation of a sequence of sequences (successive push calls)
Flatten(ss) == IF ss = <<>> THEN <<>> ELSE Head(ss) \o Flatten(Tail(ss))

\* EndpointOf with an empty operation-level security list falling back to
\* the global security instead of overriding it
EndpointOfGlobalFallback(spec, path, pathItem, method) ==
    LET operation == Get(pathItem, method)
    IN  IF operation # Undefined
        THEN LET requiresAuth ==
                     IF Has(operation, "security") /\ Len(operation.security) > 0
                     THEN TRUE
                     ELSE Has(spec, "security") /\ Len(spec.security) > 0
             IN  << [method |-> toUpperCase(method),
                     path |-> path,
                     requiresAuth |-> requiresAuth]
                    @@ Pick(operation, {"summary", "description", "tags", "operationId"}) >>
        ELSE <<>>

\* one iteration of the inner loop of extractEndpoints: the record pushed
\* for `method` of the entry [path, pathItem], if any
EndpointOf(spec, path, pathItem, method) ==
    LET operation == Get(pathItem, method)
    IN  IF operation # Undefined
        THEN LET requiresAuth ==
                     IF Has(operation, "security")
                     THEN Len(operation.security) > 0
                     ELSE Has(spec, "security") /\ Len(spec.security) > 0
             IN  << [method |-> toUpperCase(method),
                     path |-> path,
                     requiresAuth |-> requiresAuth]
                    @@ Pick(operation, {"summary", "description", "tags", "operationId"}) >>
        ELSE <<>>

\* extractEndpoints with its two loops exchanged: methods outside, paths inside
extractEndpointsMethodMajor(spec) ==
    Flatten([j \in 1..Len(methods) |->
        Flatten([i \in 1..Len(spec.paths) |->
            EndpointOf(spec, spec.paths[i].key, spec.paths[i].value, methods[j])])])

extractEndpoints(spec) ==
    Flatten([i \in 1..Len(spec.paths) |->
        Flatten([j \in 1..Len(methods) |->
            EndpointOf(spec, spec.paths[i].key, spec.paths[i].value, methods[j])])])

\* the Set built by extractTags
TagSet(spec) ==
    UNION { UNION { LET operation == Get(spec.paths[i].value, methods[j])
                    IN  IF operation # Undefined /\ Has(operation, "tags")
                        THEN {operation.tags[k] : k \in 1..Len(operation.tags)}
                        ELSE {}
                    : j \in 1..Len(methods) }
            : i \in 1..Len(spec.paths) }

\* extractTags classifying an operation without tags under 'Untagged', as
\* the list rendering does
extractTagsWithUntagged(spec) ==
    sort(TagSet(spec)
         \cup (IF \E i \in 1..Len(spec.paths), j \in 1..Len(methods) :
                    /\ Get(spec.paths[i].value, methods[j]) # Undefined
                    /\ ~Has(Get(spec.paths[i].value, methods[j]), "tags")
               THEN {s_Untagged} ELSE {}))

extractTags(spec) == sort(TagSet(spec))

\* the value `null`
Null == [kind |-> "null"]

\* spec.paths[path]: the own entry with that key, else what Object.prototype
\* gives, else undefined
PathsGet(spec, path) ==
    IF \E i \in 1..Len(spec.paths) : spec.paths[i].key = path
    THEN spec.paths[CHOOSE i \in 1..Len(spec.paths) : spec.paths[i].key = path].value
    ELSE IF path \in {s_constructor, s_toString} THEN Builtin
    ELSE Undefined

\* property read on a value that may be the built-in function object
GetAny(v, key) ==
    IF v = Builtin
    THEN (IF key \in {s_constructor, s_toString} THEN Builtin ELSE Undefined)
    ELSE Get(v, key)

findOperation(spec, method, path) ==
    LET pathItem == PathsGet(spec, path)
    IN  IF pathItem = Undefined THEN Null
        ELSE LET methodLower == toLowerCase(method)
                 found == GetAny(pathItem, methodLower)
             IN  IF found # Undefined THEN found ELSE Null

\* '#', 'components', 'schemas'
s_hash == <<35>>
s_components == <<99, 111, 109, 112, 111, 110, 101, 110, 116, 115>>
s_schemas == <<115, 99, 104, 101, 109, 97, 115>>

\* String(undefined), the key an undefined index reads
s_undefined == <<117, 110, 100, 101, 102, 105, 110, 101, 100>>

\* s.split(sep) for a separator of one unit
RECURSIVE split(_, _)
split(s, sep) ==
    IF \E i \in 1..Len(s) : s[i] = sep
    THEN LET i == CHOOSE i \in 1..Len(s) :
                      s[i] = sep /\ \A j \in 1..(i - 1) : s[j] # sep
         IN  <<SubSeq(s, 1, i - 1)>> \o split(SubSeq(s, i + 1, Len(s)), sep)
    ELSE <<s>>

(***************************************************************************)
(* Rendering.  A text is the sequence of its lines; a line is a record     *)
(* naming the template of the source (field `line`) and the values put     *)
(* into it.  JSON.stringify(v, null, 2) is the line "json" holding v.      *)
(***************************************************************************)
\* the tags a record is grouped under in formatEndpointsList
GroupTags(endpoint) ==
    IF Has(endpoint, "tags") /\ Len(endpoint.tags) > 0
    THEN endpoint.tags
    ELSE <<s_Untagged>>

\* GroupOf putting each record in front of its group instead of at the end
GroupOfReversed(eps, tag) ==
    Flatten([i \in 1..Len(eps) |->
        Flatten([k \in 1..Len(GroupTags(eps[Len(eps) + 1 - i])) |->
            IF GroupTags(eps[Len(eps) + 1 - i])[k] = tag
            THEN <<eps[Len(eps) + 1 - i]>> ELSE <<>>])])

\* groupedByTag.get(tag): one push per occurrence of tag, in input order
GroupOf(eps, tag) ==
    Flatten([i \in 1..Len(eps) |->
        Flatten([k \in 1..Len(GroupTags(eps[i])) |->
            IF GroupTags(eps[i])[k] = tag THEN <<eps[i]>> ELSE <<>>])])

\* EndpointLine showing every endpoint as public
EndpointLineNeverLocked(endpoint) ==
    [line |-> "item",
     locked |-> FALSE,
     method |-> endpoint.method,
     path |-> endpoint.path]
    @@ (IF Has(endpoint, "summary") /\ NonEmpty(endpoint.summary)
        THEN Obj("summary", endpoint.summary)
        ELSE EmptyObj)

\* the line of one endpoint in the list
EndpointLine(endpoint) ==
    [line |-> "item",
     locked |-> endpoint.requiresAuth,
     method |-> endpoint.method,
     path |-> endpoint.path]
    @@ (IF Has(endpoint, "summary") /\ NonEmpty(endpoint.summary)
        THEN Obj("summary", endpoint.summary)
        ELSE EmptyObj)

\* formatEndpointsList with groupedByTag kept outside the function: the
\* records of an earlier call are still in the groups
formatEndpointsListAccumulating(eps) ==
    LET all == (IF "endpoints" \in DOMAIN last THEN last.endpoints ELSE <<>>) \o eps
        keys == UNION { {GroupTags(all[i])[k] : k \in 1..Len(GroupTags(all[i]))}
                        : i \in 1..Len(all) }
        sortedTags == sort(keys)
    IN  << [line |-> "h1", text |-> "API Endpoints"] >>
        \o Flatten([t \in 1..Len(sortedTags) |->
              << [line |-> "h2", tag |-> sortedTags[t]] >>
              \o [n \in 1..Len(GroupOf(all, sortedTags[t])) |->
                    EndpointLine(GroupOf(all, sortedTags[t])[n])]
              \o << [line |-> "blank"] >>])

formatEndpointsList(eps) ==
    LET keys == UNION { {GroupTags(eps[i])[k] : k \in 1..Len(GroupTags(eps[i]))}
                        : i \in 1..Len(eps) }
        sortedTags == sort(keys)
    IN  << [line |-> "h1", text |-> "API Endpoints"] >>
        \o Flatten([t \in 1..Len(sortedTags) |->
              << [line |-> "h2", tag |-> sortedTags[t]] >>
              \o [n \in 1..Len(GroupOf(eps, sortedTags[t])) |->
                    EndpointLine(GroupOf(eps, sortedTags[t])[n])]
              \o << [line |-> "blank"] >>])

\* the block of one content type: its name and the schema as stored
ContentLines(content) ==
    Flatten([c \in 1..Len(content) |->
        << [line |-> "content-type", value |-> content[c].key],
           [line |-> "json",
            value |-> IF Has(content[c].value, "schema")
                      THEN content[c].value.schema ELSE Undefined] >>])

\* the lines of one entry of operation.responses
ResponseLines(statusCode, resp) ==
    << [line |-> "h3", status |-> statusCode] >>
    \o (IF Has(resp, "$ref") /\ NonEmpty(resp["$ref"])
        THEN << [line |-> "reference", ref |-> resp["$ref"]] >>
        ELSE IF Has(resp, "description")
        THEN << [line |-> "response-description", value |-> resp.description] >>
             \o (IF Has(resp, "content") THEN ContentLines(resp.content) ELSE <<>>)
        ELSE <<>>)

formatEndpointDetails(operation, method, path, spec) ==
    LET requiresAuth ==
            IF Has(operation, "security")
            THEN Len(operation.security) > 0
            ELSE Has(spec, "security") /\ Len(spec.security) > 0
    IN  << [line |-> "h1", method |-> toUpperCase(method), path |-> path] >>
        \o (IF Has(operation, "summary") /\ NonEmpty(operation.summary)
            THEN << [line |-> "summary", value |-> operation.summary] >> ELSE <<>>)
        \o (IF Has(operation, "description") /\ NonEmpty(operation.description)
            THEN << [line |-> "description", value |-> operation.description] >> ELSE <<>>)
        \o (IF Has(operation, "tags") /\ Len(operation.tags) > 0
            THEN << [line |-> "tags", value |-> operation.tags] >> ELSE <<>>)
        \o (IF Has(operation, "operationId") /\ NonEmpty(operation.operationId)
            THEN << [line |-> "operationId", value |-> operation.operationId] >> ELSE <<>>)
        \o << [line |-> "auth", required |-> requiresAuth] >>
        \o (IF Has(operation, "parameters") /\ Len(operation.parameters) > 0
            THEN << [line |-> "h2", text |-> "Parameters"] >>
                 \o Flatten([i \in 1..Len(operation.parameters) |->
                       LET param == operation.parameters[i]
                       IN  << [line |-> "parameter",
                               name |-> param.name,
                               in |-> param.in,
                               required |-> Has(param, "required") /\ param.required] >>
                           \o (IF Has(param, "description") /\ NonEmpty(param.description)
                               THEN << [line |-> "parameter-description",
                                        value |-> param.description] >>
                               ELSE <<>>)])
            ELSE <<>>)
        \o (IF Has(operation, "requestBody")
            THEN << [line |-> "h2", text |-> "Request Body"],
                    [line |-> "body-required",
                     required |-> Has(operation.requestBody, "required")
                                  /\ operation.requestBody.required] >>
                 \o ContentLines(operation.requestBody.content)
            ELSE <<>>)
        \o (IF Has(operation, "responses")
            THEN << [line |-> "h2", text |-> "Responses"] >>
                 \o Flatten([i \in 1..Len(operation.responses) |->
                       ResponseLines(operation.responses[i].key,
                                     operation.responses[i].value)])
            ELSE <<>>)

\* TagSample without the slice: every tag is shown
TagSampleUnsliced(tags) == tags

\* tags.slice(0, 10) of the guide
TagSample(tags) == SubSeq(tags, 1, IF Len(tags) < 10 THEN Len(tags) ELSE 10)

\* spec.components?.schemas, or undefined
SchemasOf(spec) ==
    IF Has(spec, "components") /\ Has(spec.components, "schemas")
    THEN spec.components.schemas
    ELSE Undefined

\* resolveSchemaRef: parts[3] is the name, whatever follows it; a part
\* beyond the end of parts is undefined
resolveSchemaRef(spec, ref) ==
    LET parts == split(ref, 47)
    IN  IF \/ parts[1] # s_hash
           \/ Len(parts) < 2 \/ parts[2] # s_components
           \/ Len(parts) < 3 \/ parts[3] # s_schemas
        THEN Null
        ELSE LET schemaName == IF Len(parts) < 4 THEN s_undefined ELSE parts[4]
                 found == IF SchemasOf(spec) = Undefined THEN Undefined
                          ELSE Get(SchemasOf(spec), schemaName)
             IN  IF found = Undefined THEN Null ELSE found

\* endpoints.filter(e => e.requiresAuth).length and its negation
CountAuth(eps, b) == Cardinality({i \in 1..Len(eps) : eps[i].requiresAuth = b})

generateGettingStartedGuide(spec, now) ==
    LET eps == extractEndpoints(spec)
        tags == extractTags(spec)
        schemaCount == IF SchemasOf(spec) = Undefined THEN 0
                       ELSE Cardinality(DOMAIN SchemasOf(spec))
    IN  << [line |-> "h1", text |-> "Laravel API - MCP Server Guide"],
           [line |-> "stats",
            total |-> Len(eps),
            public |-> CountAuth(eps, FALSE),
            protected |-> CountAuth(eps, TRUE),
            tags |-> Len(tags),
            schemas |-> schemaCount,
            version |-> spec.info.version],
           [line |-> "tag-sample", value |-> TagSample(tags)] >>
        \o (IF Len(tags) > 10
            THEN << [line |-> "more-tags", count |-> Len(tags) - 10] >> ELSE <<>>)
        \o << [line |-> "base-url",
               value |-> IF Has(spec, "servers") /\ Len(spec.servers) > 0
                            /\ Has(spec.servers[1], "url")
                            /\ NonEmpty(spec.servers[1].url)
                         THEN spec.servers[1].url
                         ELSE <<>>,
               specified |-> Has(spec, "servers") /\ Len(spec.servers) > 0
                             /\ Has(spec.servers[1], "url")
                             /\ NonEmpty(spec.servers[1].url)],
              [line |-> "last-fetched", value |-> now] >>

(***************************************************************************)
(* The documents the source can hold.                                      *)
(***************************************************************************)
\* '/a' and '/Ab'
p_a == <<47, 97>>
p_Ab == <<47, 65, 98>>
PathKeys == {p_a, p_Ab}

\* the methods the documents declare operations under: first and last of
\* the methods array
DocMethods == {s_get, s_trace}

\* 'A' and 'ab'
t_A == <<65>>
t_ab == <<97, 98>>
TagNames == {t_A, t_ab}

TagLists == UNION { [1..n -> TagNames] : n \in 0..MaxTags }

\* one security requirement object, {bearer: []}
BearerRequirement == [bearer |-> <<>>]

SecurityLists == { <<>>, <<BearerRequirement>> }

\* operations that differ in their `security` field only
SecurityOps == {EmptyObj} \cup { [security |-> sl] : sl \in SecurityLists }

\* operations that differ in their `tags` field only
TagOps == {EmptyObj} \cup { [tags |-> tl] : tl \in TagLists }

\* operations with ten, eleven or twelve one-letter tags, from 'L' downwards
WideTagOps == { [tags |-> [i \in 1..n |-> <<77 - i>>]] : n \in {10, 11, 12} }

\* 'AB' and 'Ab'
x_AB == <<65, 66>>
x_Ab == <<65, 98>>

\* operations that differ in summary and description
TextOps ==
    { sm @@ ds : sm \in {EmptyObj, [summary |-> x_AB]},
                 ds \in {EmptyObj, [description |-> x_Ab]} }

\* 'U': the name of a component schema
n_U == <<85>>
\* '#/components/schemas/U'
RefToU == <<35, 47, 99, 111, 109, 112, 111, 110, 101, 110, 116, 115, 47,
            115, 99, 104, 101, 109, 97, 115, 47, 85>>

\* the schema U: an object whose property 'n' refers to U itself
USchema ==
    [type |-> "object",
     required |-> << <<101>> >>,
     properties |-> << [key |-> <<110>>, value |-> Obj("$ref", RefToU)] >>]

\* an operation with every section formatEndpointDetails renders
FullOp ==
    [summary |-> x_AB,
     description |-> x_Ab,
     tags |-> <<t_A>>,
     operationId |-> <<111, 112>>,
     security |-> <<BearerRequirement>>,
     parameters |-> << [name |-> <<105, 100>>, in |-> "path", required |-> TRUE,
                        description |-> x_Ab],
                       [name |-> <<113>>, in |-> "query"] >>,
     requestBody |-> [required |-> TRUE,
                      content |-> << [key |-> "application/json",
                                      value |-> [schema |-> Obj("$ref", RefToU)]] >>],
     responses |-> << [key |-> "200",
                       value |-> [description |-> x_AB,
                                  content |-> << [key |-> "application/json",
                                                  value |-> [schema |-> USchema]] >>]],
                      [key |-> "404",
                       value |-> Obj("$ref", RefToU)] >>]

\* sequences of distinct path keys: the key order of spec.paths
KeySeqs ==
    { ks \in UNION { [1..n -> PathKeys] : n \in 0..Cardinality(PathKeys) } :
        \A i, j \in 1..Len(ks) : ks[i] = ks[j] => i = j }

\* the documents whose operations come from ops, at most MaxOps of them,
\* declared under the methods ms; their other top-level fields are those of
\* an element of tops, and every path item also has the own keys of pathLevel
DocsOver(ops, ms, tops, pathLevel) ==
    { [paths |-> [i \in 1..Len(c.ks) |->
                    [key |-> c.ks[i],
                     value |-> [m \in {m \in ms : <<i, m>> \in DOMAIN c.f}
                                  |-> c.f[<<i, m>>]] @@ pathLevel]],
       info |-> [title |-> <<>>, version |-> <<49>>]] @@ c.top
      : c \in UNION { UNION { [ks : {ks}, f : [S -> ops], top : tops]
                              : S \in { S \in SUBSET ((1..Len(ks)) \X ms)
                                          : Cardinality(S) <= MaxOps } }
                      : ks \in KeySeqs } }

\* the values of the top-level `security` field, absent included
GlobalSecurity == {EmptyObj} \cup { [security |-> sl] : sl \in SecurityLists }

\* the values of the top-level `components` field, absent included
GlobalComponents ==
    { EmptyObj,
      [components |-> EmptyObj],
      [components |-> [schemas |-> EmptyObj]],
      [components |-> [schemas |-> Obj(n_U, USchema)]] }

\* a path-level `parameters` array, as OpenAPI allows on a path item
PathParameters == Obj(s_parameters, [kind |-> "array", length |-> 1])

Documents ==
    DocsOver(SecurityOps, DocMethods, GlobalSecurity, EmptyObj)
    \cup DocsOver(TagOps, {s_get}, {EmptyObj}, EmptyObj)
    \cup DocsOver(WideTagOps, {s_get}, {EmptyObj}, EmptyObj)
    \cup DocsOver(TextOps, DocMethods, {EmptyObj}, EmptyObj)
    \cup DocsOver({EmptyObj, FullOp}, DocMethods, GlobalComponents, EmptyObj)
    \cup DocsOver({EmptyObj}, DocMethods, {EmptyObj}, PathParameters)

\* ways the acquisition of the document fails
Failures == { "file-unset", "file-unreadable", "file-malformed",
              "http-network", "http-status", "http-malformed" }

Sources ==
    { [outcome |-> "ok", document |-> d] : d \in Documents }
    \cup { [outcome |-> f] : f \in Failures }

\* fetchOpenAPISpec without the test of response.ok: the body of a non-2xx
\* answer is taken for the document
fetchOpenAPISpecNoStatusTest(src) ==
    IF src.outcome = "ok"
    THEN [threw |-> FALSE, spec |-> src.document]
    ELSE IF src.outcome = "http-status"
    THEN [threw |-> FALSE,
          spec |-> [paths |-> <<>>, info |-> [title |-> <<>>, version |-> <<>>]]]
    ELSE [threw |-> TRUE, error |-> src.outcome]

\* fetchOpenAPISpec: the document, or the error it throws
fetchOpenAPISpec(src) ==
    IF src.outcome = "ok"
    THEN [threw |-> FALSE, spec |-> src.document]
    ELSE [threw |-> TRUE, error |-> src.outcome]

(***************************************************************************)
(* Requests.                                                               *)
(***************************************************************************)
\* the set with no field or the field name holding a value of S
OptField(name, S) == {EmptyObj} \cup { Obj(name, v) : v \in S }

Uris == { "laravel-api://getting-started", "laravel-api://endpoints-list",
          "laravel-api://tags-list", "laravel-api://full-spec",
          "laravel-api://other" }

\* 'Get', 'TRACE', 'put', 'constructor', 'PARAMETERS'
MethodInputs ==
    { <<71, 101, 116>>, toUpperCase(s_trace), s_put, s_constructor,
      toUpperCase(s_parameters) }

\* '/a', '/Ab' and '/ab'
PathInputs == { p_a, p_Ab, toLowerCase(p_Ab) }

\* the arguments of search_endpoints: each filter absent, '' or a value
\* (query 'aB'; tag 'A' or 'a'; method 'Get')
SearchInputs ==
    { q @@ t @@ m : q \in OptField("query", { <<>>, <<97, 66>> }),
                    t \in OptField("tag", { <<>>, t_A, <<97>> }),
                    m \in OptField("method", { <<>>, <<71, 101, 116>> }) }

\* 'U', 'V', 'constructor'
SchemaNameInputs == { n_U, <<86>>, s_constructor }

\* parts.join(sep) for a separator of one unit
RECURSIVE join(_, _)
join(parts, sep) ==
    IF Len(parts) = 0 THEN <<>>
    ELSE IF Len(parts) = 1 THEN parts[1]
    ELSE parts[1] \o <<sep>> \o join(Tail(parts), sep)

\* the references given to resolveSchemaRef: to U, to V, to U with an extra
\* segment, with no name, with an empty name, to 'constructor', to a
\* response, from another root, from another file, and the empty string
RefInputs ==
    { join(ps, 47) :
        ps \in { <<s_hash, s_components, s_schemas, n_U>>,
                 <<s_hash, s_components, s_schemas, <<86>>>>,
                 <<s_hash, s_components, s_schemas, n_U, <<120>>>>,
                 <<s_hash, s_components, s_schemas>>,
                 <<s_hash, s_components, s_schemas, <<>>>>,
                 <<s_hash, s_components, s_schemas, s_constructor>>,
                 <<s_hash, s_components, <<114>>, n_U>>,
                 <<<<>>, s_components, s_schemas, n_U>>,
                 <<<<97>> \o s_hash, s_components, s_schemas, n_U>>,
                 <<>> } }

\* instants the clock can show
Instants == { "t1", "t2" }

NoRequest == [kind |-> "none"]
NoResponse == [channel |-> "none"]

\* an error thrown by a handler reaches the caller as an error response
Thrown(e) == [channel |-> "error", error |-> e]

\* a tool result: content of one text item
ToolResult(text) == [channel |-> "result", type |-> "text", text |-> text]

\* a resource result: contents of one item
ResourceResult(uri, mimeType, text) ==
    [channel |-> "result", uri |-> uri, mimeType |-> mimeType, text |-> text]

(***************************************************************************)
(* The filters of search_endpoints.                                        *)
(***************************************************************************)
\* QueryMatch looking at path and summary only
QueryMatchNoDescription(ep, lowerQuery) ==
    \/ includes(toLowerCase(ep.path), lowerQuery)
    \/ Has(ep, "summary") /\ includes(toLowerCase(ep.summary), lowerQuery)

QueryMatch(ep, lowerQuery) ==
    \/ includes(toLowerCase(ep.path), lowerQuery)
    \/ Has(ep, "summary") /\ includes(toLowerCase(ep.summary), lowerQuery)
    \/ Has(ep, "description") /\ includes(toLowerCase(ep.description), lowerQuery)

\* TagMatch comparing tags without regard to case
TagMatchIgnoreCase(ep, tag) ==
    Has(ep, "tags") /\ arrayIncludes([k \in 1..Len(ep.tags) |-> toLowerCase(ep.tags[k])],
                                     toLowerCase(tag))

TagMatch(ep, tag) == Has(ep, "tags") /\ arrayIncludes(ep.tags, tag)

MethodMatch(ep, method) == ep.method = toUpperCase(method)

\* a filter argument that is present and truthy
Given(args, name) == Has(args, name) /\ NonEmpty(args[name])

\* SearchFilter keeping the records that pass any one of the given filters
SearchFilterAny(all, args) ==
    IF ~Given(args, "query") /\ ~Given(args, "tag") /\ ~Given(args, "method")
    THEN all
    ELSE SelectSeq(all, LAMBDA ep :
            \/ Given(args, "query") /\ QueryMatch(ep, toLowerCase(args.query))
            \/ Given(args, "tag") /\ TagMatch(ep, args.tag)
            \/ Given(args, "method") /\ MethodMatch(ep, args.method))

\* the local `endpoints` of the search_endpoints case when it returns
SearchFilter(all, args) ==
    LET afterQuery ==
            IF Given(args, "query")
            THEN SelectSeq(all, LAMBDA ep : QueryMatch(ep, toLowerCase(args.query)))
            ELSE all
        afterTag ==
            IF Given(args, "tag")
            THEN SelectSeq(afterQuery, LAMBDA ep : TagMatch(ep, args.tag))
            ELSE afterQuery
    IN  IF Given(args, "method")
        THEN SelectSeq(afterTag, LAMBDA ep : MethodMatch(ep, args.method))
        ELSE afterTag

(***************************************************************************)
(* State machine: the source holds a document (or fails); a request        *)
(* arrives, its handler acquires the document and answers, and the answer  *)
(* is delivered.  The server keeps nothing between two requests: request,  *)
(* response and endpoints describe the exchange in progress.               *)
(***************************************************************************)
\* no exchange is in progress
Idle == request = NoRequest

\* no earlier exchange is on record
NoExchange == [kind |-> "none"]

\* fetches counts the calls of fetchOpenAPISpec made for the exchange in
\* progress; last is the record of an earlier exchange, kept by Record for
\* the properties that compare two exchanges (the server has no such state)
Init ==
    /\ source \in Sources
    /\ request = NoRequest
    /\ response = NoResponse
    /\ endpoints = <<>>
    /\ fetches = 0
    /\ last = NoExchange

\* the handler's call of fetchOpenAPISpec answered from the document an
\* earlier exchange acquired, when there is one
AcquireCached ==
    IF last # NoExchange /\ last.source.outcome = "ok"
    THEN fetchOpenAPISpec(last.source)
    ELSE fetchOpenAPISpec(source)

\* `await fetchOpenAPISpec()` at the entry of a handler: the source is read
\* as it is at that moment
Acquire == fetchOpenAPISpec(source)

\* ReadResource handler
ReadResource(uri) ==
    LET got == Acquire
        spec == got.spec
    IN  /\ Idle
        /\ fetches' = 1
        /\ UNCHANGED last
        /\ request' = [kind |-> "ReadResource", uri |-> uri]
        /\ UNCHANGED source
        /\ IF got.threw
           THEN /\ response' = Thrown(got.error)
                /\ endpoints' = <<>>
           ELSE CASE uri = "laravel-api://getting-started" ->
                       /\ \E now \in Instants :
                            response' = ResourceResult(uri, "text/markdown",
                                            generateGettingStartedGuide(spec, now))
                       /\ endpoints' = <<>>
                  [] uri = "laravel-api://endpoints-list" ->
                       /\ endpoints' = extractEndpoints(spec)
                       /\ response' = ResourceResult(uri, "text/markdown",
                                          formatEndpointsList(extractEndpoints(spec)))
                  [] uri = "laravel-api://tags-list" ->
                       /\ response' = ResourceResult(uri, "text/plain", extractTags(spec))
                       /\ endpoints' = <<>>
                  [] uri = "laravel-api://full-spec" ->
                       /\ response' = ResourceResult(uri, "application/json",
                                          << [line |-> "json", value |-> spec] >>)
                       /\ endpoints' = <<>>
                  [] OTHER ->
                       /\ response' = Thrown("Unknown resource")
                       /\ endpoints' = <<>>

\* the request of a tool call; args is [present |-> FALSE] when the call
\* carries no `arguments` member
ToolRequest(name, args) ==
    [kind |-> "CallTool", name |-> name]
    @@ (IF args.present THEN Obj("arguments", args.value) ELSE EmptyObj)

\* CallTool handler, case get_endpoint_details
GetEndpointDetails(args) ==
    LET got == Acquire
        spec == got.spec
    IN  /\ Idle
        /\ fetches' = 1
        /\ UNCHANGED last
        /\ request' = ToolRequest("get_endpoint_details", args)
        /\ UNCHANGED source
        /\ endpoints' = <<>>
        /\ IF got.threw THEN response' = Thrown(got.error)
           ELSE IF ~args.present THEN response' = Thrown("TypeError")
           ELSE LET method == args.value.method
                    path == args.value.path
                    operation == findOperation(spec, method, path)
                IN  IF operation = Null
                    THEN response' = ToolResult(
                             << [line |-> "endpoint-not-found",
                                 method |-> toUpperCase(method),
                                 path |-> path] >>)
                    ELSE response' = ToolResult(
                             formatEndpointDetails(operation, method, path, spec))

\* CallTool handler, case search_endpoints
SearchEndpoints(args) ==
    LET got == Acquire
        spec == got.spec
    IN  /\ Idle
        /\ fetches' = 1
        /\ UNCHANGED last
        /\ request' = ToolRequest("search_endpoints", args)
        /\ UNCHANGED source
        /\ IF got.threw
           THEN /\ response' = Thrown(got.error)
                /\ endpoints' = <<>>
           ELSE IF ~args.present
           THEN /\ response' = Thrown("TypeError")
                /\ endpoints' = <<>>
           ELSE /\ endpoints' = SearchFilter(extractEndpoints(spec), args.value)
                /\ response' = ToolResult(formatEndpointsList(
                                   SearchFilter(extractEndpoints(spec), args.value)))

\* CallTool handler, case get_schema_details
GetSchemaDetails(args) ==
    LET got == Acquire
        spec == got.spec
    IN  /\ Idle
        /\ fetches' = 1
        /\ UNCHANGED last
        /\ request' = ToolRequest("get_schema_details", args)
        /\ UNCHANGED source
        /\ endpoints' = <<>>
        /\ IF got.threw THEN response' = Thrown(got.error)
           ELSE IF ~args.present THEN response' = Thrown("TypeError")
           ELSE LET schemaName == args.value.schemaName
                    schema == IF SchemasOf(spec) = Undefined THEN Undefined
                              ELSE Get(SchemasOf(spec), schemaName)
                IN  IF schema = Undefined
                    THEN response' = ToolResult(
                             << [line |-> "schema-not-found", name |-> schemaName] >>)
                    ELSE response' = ToolResult(
                             << [line |-> "schema-heading", name |-> schemaName],
                                [line |-> "json", value |-> schema] >>)

\* CallTool handler, default case
UnknownTool(args) ==
    /\ Idle
    /\ fetches' = 1
    /\ UNCHANGED last
    /\ request' = ToolRequest("other_tool", args)
    /\ UNCHANGED source
    /\ endpoints' = <<>>
    /\ response' = IF Acquire.threw
                   THEN Thrown(Acquire.error)
                   ELSE Thrown("Unknown tool")

\* resources listing a URI that ReadResource does not serve in place of
\* the full specification
resourcesListingOther ==
    << [uri |-> "laravel-api://getting-started", mimeType |-> "text/markdown"],
       [uri |-> "laravel-api://endpoints-list", mimeType |-> "text/markdown"],
       [uri |-> "laravel-api://tags-list", mimeType |-> "text/plain"],
       [uri |-> "laravel-api://other", mimeType |-> "application/json"] >>

\* the resources ListResources returns (names and descriptions left out)
resources ==
    << [uri |-> "laravel-api://getting-started", mimeType |-> "text/markdown"],
       [uri |-> "laravel-api://endpoints-list", mimeType |-> "text/markdown"],
       [uri |-> "laravel-api://tags-list", mimeType |-> "text/plain"],
       [uri |-> "laravel-api://full-spec", mimeType |-> "application/json"] >>

\* the tools ListTools returns: name and the required properties of the
\* input schema
tools ==
    << [name |-> "get_endpoint_details", required |-> <<"method", "path">>],
       [name |-> "search_endpoints", required |-> <<>>],
       [name |-> "get_schema_details", required |-> <<"schemaName">>] >>

\* ListResources handler: a fixed answer, made without acquiring the document
ListResources ==
    /\ Idle
    /\ request' = [kind |-> "ListResources"]
    /\ response' = [channel |-> "result", resources |-> resources]
    /\ endpoints' = <<>>
    /\ fetches' = 0
    /\ UNCHANGED <<source, last>>

\* ListTools handler: a fixed answer, made without acquiring the document
ListTools ==
    /\ Idle
    /\ request' = [kind |-> "ListTools"]
    /\ response' = [channel |-> "result", tools |-> tools]
    /\ endpoints' = <<>>
    /\ fetches' = 0
    /\ UNCHANGED <<source, last>>

\* a call of resolveSchemaRef on the acquired document; no handler makes
\* one, so the call stands by itself
CallResolve(ref) ==
    /\ Idle
    /\ source.outcome = "ok"
    /\ request' = [kind |-> "resolveSchemaRef", ref |-> ref]
    /\ response' = [channel |-> "return",
                    value |-> resolveSchemaRef(source.document, ref)]
    /\ endpoints' = <<>>
    /\ fetches' = 0
    /\ UNCHANGED <<source, last>>

\* the answer reaches the caller; nothing of the exchange is kept
Deliver ==
    /\ ~Idle
    /\ request' = NoRequest
    /\ response' = NoResponse
    /\ endpoints' = <<>>
    /\ fetches' = 0
    /\ UNCHANGED <<source, last>>

\* the answer reaches the caller, and the exchange is put on record
Record ==
    /\ ~Idle
    /\ last' = [source |-> source, request |-> request, response |-> response,
                endpoints |-> endpoints]
    /\ request' = NoRequest
    /\ response' = NoResponse
    /\ endpoints' = <<>>
    /\ fetches' = 0
    /\ UNCHANGED source

\* a document with the single operation op under `get` of '/a'
SmallDoc(op, top) ==
    [paths |-> << [key |-> p_a, value |-> Obj(s_get, op)] >>,
     info |-> [title |-> <<>>, version |-> <<49>>]] @@ top

\* the sources between which the environment changes
HistorySources ==
    { [outcome |-> "ok", document |-> SmallDoc(EmptyObj, EmptyObj)],
      [outcome |-> "ok", document |-> SmallDoc([tags |-> <<t_A>>], EmptyObj)],
      [outcome |-> "ok", document |-> SmallDoc(FullOp, EmptyObj)],
      [outcome |-> "ok",
       document |-> SmallDoc(FullOp, [components |-> [schemas |-> Obj(n_U, USchema)]])],
      [outcome |-> "http-network"] }

\* between two requests the file or the remote API comes to hold another
\* document, or to fail
SourceChanges ==
    /\ Idle
    /\ source' \in HistorySources \ {source}
    /\ UNCHANGED <<request, response, endpoints, fetches, last>>

Absent == [present |-> FALSE]
Present(v) == [present |-> TRUE, value |-> v]

Next ==
    \/ \E uri \in Uris : ReadResource(uri)
    \/ \E a \in {Absent} \cup { Present([method |-> m, path |-> p])
                               : m \in MethodInputs, p \in PathInputs } :
          GetEndpointDetails(a)
    \/ \E a \in {Absent} \cup { Present(v) : v \in SearchInputs } :
          SearchEndpoints(a)
    \/ \E a \in {Absent} \cup { Present([schemaName |-> n]) : n \in SchemaNameInputs } :
          GetSchemaDetails(a)
    \/ \E a \in {Absent, Present(EmptyObj)} : UnknownTool(a)
    \/ ListResources
    \/ ListTools
    \/ Deliver

Spec == Init /\ [][Next]_vars

\* resolveSchemaRef applied to the documents
InitResolve ==
    /\ source \in { src \in Sources : src.outcome = "ok" }
    /\ request = NoRequest
    /\ response = NoResponse
    /\ endpoints = <<>>
    /\ fetches = 0
    /\ last = NoExchange

NextResolve ==
    \/ \E ref \in RefInputs : CallResolve(ref)
    \/ Deliver

SpecResolve == InitResolve /\ [][NextResolve]_vars

\* the same server observed over several exchanges while the source changes
InitHistory ==
    /\ source \in HistorySources
    /\ request = NoRequest
    /\ response = NoResponse
    /\ endpoints = <<>>
    /\ fetches = 0
    /\ last = NoExchange

NextHistory ==
    \/ \E uri \in Uris : ReadResource(uri)
    \/ \E a \in {Absent} \cup { Present([method |-> m, path |-> p])
                               : m \in MethodInputs, p \in PathInputs } :
          GetEndpointDetails(a)
    \/ \E a \in {Absent} \cup { Present(v) : v \in SearchInputs } :
          SearchEndpoints(a)
    \/ \E a \in {Absent} \cup { Present([schemaName |-> n]) : n \in SchemaNameInputs } :
          GetSchemaDetails(a)
    \/ \E a \in {Absent, Present(EmptyObj)} : UnknownTool(a)
    \/ ListResources
    \/ ListTools
    \/ Deliver
    \/ Record
    \/ SourceChanges

SpecHistory == InitHistory /\ [][NextHistory]_vars

(***************************************************************************)
(* Vocabulary of the properties.  These definitions read the document      *)
(* directly (own keys only) and do not use the operators of the engine.    *)
(***************************************************************************)
\* the acquisition succeeds and Doc is the document it yields
Acquired == source.outcome = "ok"
Doc == source.document

\* the eight HTTP methods: key in a path item, and name in upper case
HttpMethods ==
    << [key |-> <<103, 101, 116>>, name |-> <<71, 69, 84>>],
       [key |-> <<112, 111, 115, 116>>, name |-> <<80, 79, 83, 84>>],
       [key |-> <<112, 117, 116>>, name |-> <<80, 85, 84>>],
       [key |-> <<112, 97, 116, 99, 104>>, name |-> <<80, 65, 84, 67, 72>>],
       [key |-> <<100, 101, 108, 101, 116, 101>>, name |-> <<68, 69, 76, 69, 84, 69>>],
       [key |-> <<111, 112, 116, 105, 111, 110, 115>>,
        name |-> <<79, 80, 84, 73, 79, 78, 83>>],
       [key |-> <<104, 101, 97, 100>>, name |-> <<72, 69, 65, 68>>],
       [key |-> <<116, 114, 97, 99, 101>>, name |-> <<84, 82, 65, 67, 69>>] >>

\* the (path position, method position) pairs at which d declares an operation
Declared(d) ==
    { pm \in (1..Len(d.paths)) \X (1..Len(HttpMethods)) :
        HttpMethods[pm[2]].key \in DOMAIN d.paths[pm[1]].value }

\* the operation d declares at the pair pm
OperationAt(d, pm) == d.paths[pm[1]].value[HttpMethods[pm[2]].key]

\* the record r is the one of the pair pm
RecordOf(d, r, pm) ==
    /\ r.path = d.paths[pm[1]].key
    /\ r.method = HttpMethods[pm[2]].name

\* pm comes before qm: document path order, then method order
PairBefore(pm, qm) == pm[1] < qm[1] \/ (pm[1] = qm[1] /\ pm[2] < qm[2])

\* the handler of the endpoints-list resource has answered
ListedEndpoints ==
    /\ Acquired
    /\ request = [kind |-> "ReadResource", uri |-> "laravel-api://endpoints-list"]
    /\ response.channel = "result"

\* the handler of the tags-list resource has answered
ListedTags ==
    /\ Acquired
    /\ request = [kind |-> "ReadResource", uri |-> "laravel-api://tags-list"]
    /\ response.channel = "result"

\* the effective security of operation o in document d is non-empty
EffectiveAuth(d, o) ==
    IF "security" \in DOMAIN o
    THEN o.security # <<>>
    ELSE "security" \in DOMAIN d /\ d.security # <<>>

(***************************************************************************)
(* C1: every record of the index has requiresAuth true iff the operation's *)
(* own security list, when the operation has one, is non-empty, and iff    *)
(* the document's global security list exists and is non-empty when the    *)
(* operation has no security field.                                        *)
(***************************************************************************)
C1_RequiresAuth ==
    ListedEndpoints =>
        \A k \in 1..Len(endpoints) :
            \E pm \in Declared(Doc) :
                /\ RecordOf(Doc, endpoints[k], pm)
                /\ endpoints[k].requiresAuth = EffectiveAuth(Doc, OperationAt(Doc, pm))

\* an operation with an empty security list and one with no security field,
\* under a non-empty global security: the first is public, the second not
C1_Witness ==
    /\ ListedEndpoints
    /\ "security" \in DOMAIN Doc /\ Doc.security # <<>>
    /\ \E k, l \in 1..Len(endpoints) :
          \E pm, qm \in Declared(Doc) :
              /\ RecordOf(Doc, endpoints[k], pm)
              /\ RecordOf(Doc, endpoints[l], qm)
              /\ "security" \in DOMAIN OperationAt(Doc, pm)
              /\ OperationAt(Doc, pm).security = <<>>
              /\ "security" \notin DOMAIN OperationAt(Doc, qm)
              /\ ~endpoints[k].requiresAuth
              /\ endpoints[l].requiresAuth

(***************************************************************************)
(* C2: the tag list is strictly ascending (sorted, no duplicates) and its  *)
(* elements are exactly the tags some operation under one of the eight     *)
(* methods declares; so it is empty when none declares a tag and holds no  *)
(* tag, "Untagged" included, that no operation declares.                   *)
(***************************************************************************)
DeclaredTags(d) ==
    UNION { IF "tags" \in DOMAIN OperationAt(d, pm)
            THEN { OperationAt(d, pm).tags[k] : k \in 1..Len(OperationAt(d, pm).tags) }
            ELSE {}
            : pm \in Declared(d) }

C2_TagsSortedUnion ==
    ListedTags =>
        /\ \A i, j \in 1..Len(response.text) :
              i < j => StrLess(response.text[i], response.text[j])
        /\ { response.text[i] : i \in 1..Len(response.text) } = DeclaredTags(Doc)

\* two tags listed, declared in descending order by one operation, while
\* another operation declares no tags at all
C2_Witness ==
    /\ ListedTags
    /\ Len(response.text) = 2
    /\ \E pm, qm \in Declared(Doc) :
          /\ "tags" \in DOMAIN OperationAt(Doc, pm)
          /\ OperationAt(Doc, pm).tags = <<response.text[2], response.text[1]>>
          /\ "tags" \notin DOMAIN OperationAt(Doc, qm)

(***************************************************************************)
(* C10: the index has exactly one record for each declared (path, method)  *)
(* pair and no other; the records follow document path order and, within  *)
(* a path, the order GET, POST, PUT, PATCH, DELETE, OPTIONS, HEAD, TRACE;  *)
(* each carries the method in upper case and the path unchanged.           *)
(***************************************************************************)
C10_IndexExactOrdered ==
    ListedEndpoints =>
        /\ Len(endpoints) = Cardinality(Declared(Doc))
        /\ \A pm \in Declared(Doc) :
              \E k \in 1..Len(endpoints) : RecordOf(Doc, endpoints[k], pm)
        /\ \A k, l \in 1..Len(endpoints) :
              k < l => \E pm, qm \in Declared(Doc) :
                          /\ RecordOf(Doc, endpoints[k], pm)
                          /\ RecordOf(Doc, endpoints[l], qm)
                          /\ PairBefore(pm, qm)

\* TRACE of the first path comes before GET of the second, and the first
\* path is not the first in alphabetical order
C10_Witness ==
    /\ ListedEndpoints
    /\ Len(endpoints) = 2
    /\ endpoints[1].method = HttpMethods[8].name
    /\ endpoints[2].method = HttpMethods[1].name
    /\ StrLess(endpoints[2].path, endpoints[1].path)

(***************************************************************************)
(* Vocabulary of the search properties.                                    *)
(***************************************************************************)
\* a call of the tool `name` reached its handler with a document acquired
Called(name) ==
    /\ Acquired
    /\ request.kind = "CallTool"
    /\ request.name = name

\* the call carries an `arguments` object
WithArguments == "arguments" \in DOMAIN request

\* the full index of the acquired document
Index == extractEndpoints(Doc)

\* the filter `name` is supplied: present and not the empty string
Supplied(name) ==
    /\ WithArguments
    /\ name \in DOMAIN request.arguments
    /\ request.arguments[name] # <<>>

\* two code units are the same letter, case aside
SameLetter(c, d) ==
    \/ c = d
    \/ c \in 65..90 /\ d = c + 32
    \/ d \in 65..90 /\ c = d + 32

\* two strings are equal, case aside
SameWord(a, b) ==
    /\ Len(a) = Len(b)
    /\ \A j \in 1..Len(a) : SameLetter(a[j], b[j])

\* q occurs in text, case aside
ContainsWord(text, q) ==
    \E i \in 0..(Len(text) - Len(q)) : SameWord(SubSeq(text, i + 1, i + Len(q)), q)

SatisfiesQuery(r, q) ==
    \/ ContainsWord(r.path, q)
    \/ "summary" \in DOMAIN r /\ ContainsWord(r.summary, q)
    \/ "description" \in DOMAIN r /\ ContainsWord(r.description, q)

SatisfiesTag(r, x) ==
    "tags" \in DOMAIN r /\ \E k \in 1..Len(r.tags) : r.tags[k] = x

SatisfiesMethod(r, m) == SameWord(r.method, m)

\* r satisfies every supplied filter
SatisfiesAll(r) ==
    /\ Supplied("query") => SatisfiesQuery(r, request.arguments.query)
    /\ Supplied("tag") => SatisfiesTag(r, request.arguments.tag)
    /\ Supplied("method") => SatisfiesMethod(r, request.arguments.method)

(***************************************************************************)
(* C3: whenever search_endpoints returns, the records it keeps are exactly *)
(* the index records that satisfy every supplied filter, in index order,   *)
(* none added, repeated or moved.                                          *)
(***************************************************************************)
C3_ConjunctiveSubsequence ==
    (Called("search_endpoints") /\ response.channel = "result") =>
        endpoints = SelectSeq(Index, LAMBDA r : SatisfiesAll(r))

\* three filters supplied; one of two records is kept, the other satisfies
\* the tag and the method but not the query
C3_Witness ==
    /\ Called("search_endpoints") /\ response.channel = "result"
    /\ Supplied("query") /\ Supplied("tag") /\ Supplied("method")
    /\ Len(Index) = 2 /\ Len(endpoints) = 1
    /\ \E i \in 1..Len(Index) :
          /\ SatisfiesTag(Index[i], request.arguments.tag)
          /\ SatisfiesMethod(Index[i], request.arguments.method)
          /\ ~SatisfiesQuery(Index[i], request.arguments.query)

(***************************************************************************)
(* C4: search_endpoints called with no filter, or with every supplied      *)
(* filter the empty string, raises no error, keeps the full index in       *)
(* document order, and renders what the endpoints-list resource renders.   *)
(***************************************************************************)
C4_NoFilterIdentity ==
    (/\ Called("search_endpoints")
     /\ ~Supplied("query") /\ ~Supplied("tag") /\ ~Supplied("method")) =>
        /\ response.channel = "result"
        /\ endpoints = Index
        /\ response.text = formatEndpointsList(Index)

(***************************************************************************)
(* C5: with a non-empty tag X as the only filter, search_endpoints returns *)
(* without error and keeps an index record iff its tag list has an element *)
(* equal to X (same code units); a record without tags is dropped; kept    *)
(* records are in index order.                                             *)
(***************************************************************************)
C5_TagExact ==
    (/\ Called("search_endpoints")
     /\ Supplied("tag") /\ ~Supplied("query") /\ ~Supplied("method")) =>
        /\ response.channel = "result"
        /\ \A i \in 1..Len(Index) :
              (\E k \in 1..Len(endpoints) : endpoints[k] = Index[i])
              <=> ("tags" \in DOMAIN Index[i]
                   /\ request.arguments.tag
                        \in { Index[i].tags[n] : n \in 1..Len(Index[i].tags) })
        /\ \A k, l \in 1..Len(endpoints) :
              k < l => \E i, j \in 1..Len(Index) :
                          i < j /\ Index[i] = endpoints[k] /\ Index[j] = endpoints[l]

\* tag 'a' asked; the index has a record tagged 'A' and one tagged 'ab';
\* neither is kept
C5_Witness ==
    /\ Called("search_endpoints") /\ response.channel = "result"
    /\ Supplied("tag") /\ ~Supplied("query") /\ ~Supplied("method")
    /\ request.arguments.tag = <<97>>
    /\ \E i \in 1..Len(Index) : "tags" \in DOMAIN Index[i] /\ Index[i].tags = << <<65>> >>
    /\ \E i \in 1..Len(Index) : "tags" \in DOMAIN Index[i] /\ Index[i].tags = << <<97, 98>> >>
    /\ endpoints = <<>>

(***************************************************************************)
(* C6: with a non-empty query q as the only filter, search_endpoints       *)
(* returns without error and keeps an index record iff q occurs, case      *)
(* aside, in its path, or its summary, or its description; a missing       *)
(* summary or description is skipped.                                      *)
(***************************************************************************)
C6_QuerySubstring ==
    (/\ Called("search_endpoints")
     /\ Supplied("query") /\ ~Supplied("tag") /\ ~Supplied("method")) =>
        /\ response.channel = "result"
        /\ \A i \in 1..Len(Index) :
              (\E k \in 1..Len(endpoints) : endpoints[k] = Index[i])
              <=> SatisfiesQuery(Index[i], request.arguments.query)
        /\ \A k, l \in 1..Len(endpoints) : endpoints[k] = endpoints[l] => k = l

\* a record is kept through its description alone (no summary, path does
\* not match) and a record with neither summary nor description is dropped
C6_Witness ==
    /\ Called("search_endpoints") /\ response.channel = "result"
    /\ Supplied("query") /\ ~Supplied("tag") /\ ~Supplied("method")
    /\ Len(endpoints) = 1
    /\ "summary" \notin DOMAIN endpoints[1]
    /\ ~ContainsWord(endpoints[1].path, request.arguments.query)
    /\ "description" \in DOMAIN endpoints[1]
    /\ request.arguments.query # toLowerCase(request.arguments.query)
    /\ \E i \in 1..Len(Index) :
          /\ "summary" \notin DOMAIN Index[i]
          /\ "description" \notin DOMAIN Index[i]
          /\ Index[i] # endpoints[1]

(***************************************************************************)
(* Vocabulary of the lookup properties.                                    *)
(***************************************************************************)
\* the pairs at which d declares an operation for path p and method m,
\* the path compared exactly and the method case aside
DeclaredFor(d, m, p) ==
    { pm \in Declared(d) :
        /\ d.paths[pm[1]].key = p
        /\ SameWord(HttpMethods[pm[2]].key, m) }

\* the own keys of components.schemas, none when the document has no such map
SchemaNames(d) ==
    IF "components" \in DOMAIN d /\ "schemas" \in DOMAIN d.components
    THEN DOMAIN d.components.schemas
    ELSE {}

(***************************************************************************)
(* C7: findOperation returns an operation iff the document has the path    *)
(* key p exactly and that path item declares an operation under the HTTP   *)
(* method equal to m case aside, and then returns that operation; in every *)
(* other case, a method outside the eight included, it returns not-found.  *)
(***************************************************************************)
C7_FindOperation ==
    (Called("get_endpoint_details") /\ WithArguments) =>
        LET m == request.arguments.method
            p == request.arguments.path
            found == findOperation(Doc, m, p)
        IN  IF DeclaredFor(Doc, m, p) = {}
            THEN found = Null
            ELSE \E pm \in DeclaredFor(Doc, m, p) : found = OperationAt(Doc, pm)

(***************************************************************************)
(* C8: for a (method, path) at which the acquired document has no          *)
(* operation, get_endpoint_details answers on the result channel with the  *)
(* not-found text naming the requested method and path, and never throws.  *)
(***************************************************************************)
C8_EndpointNotFoundText ==
    (/\ Called("get_endpoint_details") /\ WithArguments
     /\ DeclaredFor(Doc, request.arguments.method, request.arguments.path) = {}) =>
        /\ response.channel = "result"
        /\ Len(response.text) = 1
        /\ response.text[1].line = "endpoint-not-found"
        /\ SameWord(response.text[1].method, request.arguments.method)
        /\ response.text[1].path = request.arguments.path

(***************************************************************************)
(* C9: get_schema_details answers on the result channel and never throws:  *)
(* for a name that is not a key of components.schemas (the map or          *)
(* components itself may be missing) with the not-found text naming it,    *)
(* for a name that is a key with the heading of that name followed by the  *)
(* schema stored under it.                                                 *)
(***************************************************************************)
C9_SchemaDetails ==
    (Called("get_schema_details") /\ WithArguments) =>
        LET n == request.arguments.schemaName
        IN  /\ response.channel = "result"
            /\ IF n \in SchemaNames(Doc)
               THEN response.text = << [line |-> "schema-heading", name |-> n],
                                       [line |-> "json",
                                        value |-> Doc.components.schemas[n]] >>
               ELSE response.text = << [line |-> "schema-not-found", name |-> n] >>


(***************************************************************************)
(* Vocabulary of the list rendering.                                       *)
(***************************************************************************)
\* the tags of the group headings of a rendered list, in order of appearance
Headings(text) ==
    LET hs == SelectSeq(text, LAMBDA l : l.line = "h2")
    IN  [i \in 1..Len(hs) |-> hs[i].tag]

\* the value v carries no tags: no tags field, or an empty tags list
Tagless(v) == "tags" \notin DOMAIN v \/ v.tags = <<>>

\* some operation of d carries no tags
SomeUntagged(d) == \E pm \in Declared(d) : Tagless(OperationAt(d, pm))

\* a list of endpoints has been rendered from the records in `endpoints`
ListRendered ==
    /\ Acquired
    /\ response.channel = "result"
    /\ \/ request = [kind |-> "ReadResource", uri |-> "laravel-api://endpoints-list"]
       \/ request.kind = "CallTool" /\ request.name = "search_endpoints"

\* the positions of the endpoint lines of a rendered list
ItemLines(text) == { n \in 1..Len(text) : text[n].line = "item" }

\* the heading under which line n of a rendered list stands
GroupAt(text, n) ==
    LET k == CHOOSE k \in 1..n :
                 /\ text[k].line = "h2"
                 /\ \A j \in (k + 1)..n : text[j].line # "h2"
    IN  text[k].tag

\* the line l shows the record r
LineOf(l, r) == l.method = r.method /\ l.path = r.path

(***************************************************************************)
(* C11: the tag headings of the endpoint list of the full index are the    *)
(* sorted tags of the document followed by one trailing "Untagged" heading *)
(* iff some record has no tags; no other heading appears and "Untagged"    *)
(* never stands before a declared tag.                                     *)
(***************************************************************************)
C11_UntaggedTrailing ==
    ListedEndpoints =>
        LET hs == Headings(response.text)
            n == Cardinality(DeclaredTags(Doc))
        IN  /\ Len(hs) = n + (IF SomeUntagged(Doc) THEN 1 ELSE 0)
            /\ \A i, j \in 1..n : i < j => StrLess(hs[i], hs[j])
            /\ { hs[i] : i \in 1..n } = DeclaredTags(Doc)
            /\ SomeUntagged(Doc) => hs[n + 1] = s_Untagged

(***************************************************************************)
(* C12: in a rendered list the group headings are in strictly ascending    *)
(* order; within a group the lines follow the input order of their         *)
(* records; a record with no tags has exactly one line in the whole text,  *)
(* and that line stands under "Untagged".                                  *)
(***************************************************************************)
C12_GroupsSortedStable ==
    ListRendered =>
        LET text == response.text
            hs == Headings(text)
        IN  /\ \A i, j \in 1..Len(hs) : i < j => StrLess(hs[i], hs[j])
            /\ \A m, n \in ItemLines(text) :
                  (m < n /\ GroupAt(text, m) = GroupAt(text, n)) =>
                      \E i, j \in 1..Len(endpoints) :
                          /\ i <= j
                          /\ LineOf(text[m], endpoints[i])
                          /\ LineOf(text[n], endpoints[j])
            /\ \A i \in 1..Len(endpoints) :
                  Tagless(endpoints[i]) =>
                      \E n \in ItemLines(text) :
                          /\ GroupAt(text, n) = s_Untagged
                          /\ \A m \in ItemLines(text) :
                                LineOf(text[m], endpoints[i]) <=> m = n

\* two groups, one of them holding the lines of two different records in
\* input order
C12_Witness ==
    /\ ListRendered
    /\ Len(endpoints) = 2
    /\ Len(Headings(response.text)) = 2
    /\ endpoints[1] # endpoints[2]
    /\ \E m, n \in ItemLines(response.text) :
          /\ m < n
          /\ GroupAt(response.text, m) = GroupAt(response.text, n)
          /\ LineOf(response.text[m], endpoints[1])
          /\ LineOf(response.text[n], endpoints[2])


(***************************************************************************)
(* Vocabulary of the schema references.                                    *)
(***************************************************************************)
\* '#/components/schemas/'
RefPrefix ==
    <<35, 47, 99, 111, 109, 112, 111, 110, 101, 110, 116, 115, 47,
      115, 99, 104, 101, 109, 97, 115, 47>>

\* the references found in the schema v, at its top or in its properties
RECURSIVE RefsIn(_)
RefsIn(v) ==
    IF "$ref" \in DOMAIN v THEN { v["$ref"] }
    ELSE IF "properties" \in DOMAIN v
    THEN UNION { RefsIn(v.properties[i].value) : i \in 1..Len(v.properties) }
    ELSE {}

\* the reference ref names a schema that d holds in components.schemas
Resolvable(d, ref) == \E n \in SchemaNames(d) : ref = RefPrefix \o n

\* get_endpoint_details found the operation and rendered it
DetailsRendered ==
    /\ Called("get_endpoint_details")
    /\ response.channel = "result"
    /\ response.text[1].line = "h1"

\* the positions of the schema blocks of a rendered text
JsonLines(text) == { n \in 1..Len(text) : text[n].line = "json" }

(***************************************************************************)
(* C13: the schemas shown by get_endpoint_details are fully resolved: no   *)
(* schema block of the rendered operation holds, at its top or nested, a   *)
(* `$ref` to a schema present in components.schemas.                       *)
(***************************************************************************)
C13_SchemasFullyResolved ==
    DetailsRendered =>
        \A n \in JsonLines(response.text) :
            \A ref \in RefsIn(response.text[n].value) : ~Resolvable(Doc, ref)


(***************************************************************************)
(* C14: when the acquisition of the document fails, in any of the ways of  *)
(* Failures, every ReadResource and CallTool request ends with the error   *)
(* of the acquisition on the error channel, and carries no content: no     *)
(* text, no resource fields, no records.                                   *)
(***************************************************************************)
C14_AcquisitionFailure ==
    (~Acquired /\ request.kind \in {"ReadResource", "CallTool"}) =>
        /\ response.channel = "error"
        /\ DOMAIN response = {"channel", "error"}
        /\ response.error = source.outcome
        /\ endpoints = <<>>

\* a non-2xx answer of the source met by a tool call and by a resource read
C14_Witness ==
    /\ source.outcome = "http-status"
    /\ \/ request = [kind |-> "ReadResource", uri |-> "laravel-api://full-spec"]
       \/ request.kind = "CallTool" /\ request.name = "search_endpoints"
    /\ response.channel = "error"


(***************************************************************************)
(* Vocabulary of the properties over several exchanges.                    *)
(***************************************************************************)
\* the answers the request req has when it is computed from the source src
\* alone: from the document src holds, the arguments of req and the clock
Answers(src, req) ==
    IF src.outcome # "ok" THEN { Thrown(src.outcome) }
    ELSE LET d == src.document
         IN  IF req.kind = "ReadResource"
             THEN CASE req.uri = "laravel-api://getting-started" ->
                         { ResourceResult(req.uri, "text/markdown",
                                          generateGettingStartedGuide(d, now))
                           : now \in Instants }
                    [] req.uri = "laravel-api://endpoints-list" ->
                         { ResourceResult(req.uri, "text/markdown",
                                          formatEndpointsList(extractEndpoints(d))) }
                    [] req.uri = "laravel-api://tags-list" ->
                         { ResourceResult(req.uri, "text/plain", extractTags(d)) }
                    [] req.uri = "laravel-api://full-spec" ->
                         { ResourceResult(req.uri, "application/json",
                                          << [line |-> "json", value |-> d] >>) }
                    [] OTHER -> { Thrown("Unknown resource") }
             ELSE IF req.name = "other_tool" THEN { Thrown("Unknown tool") }
             ELSE IF "arguments" \notin DOMAIN req THEN { Thrown("TypeError") }
             ELSE LET a == req.arguments
                  IN  CASE req.name = "get_endpoint_details" ->
                             IF findOperation(d, a.method, a.path) = Null
                             THEN { ToolResult(<< [line |-> "endpoint-not-found",
                                                   method |-> toUpperCase(a.method),
                                                   path |-> a.path] >>) }
                             ELSE { ToolResult(formatEndpointDetails(
                                        findOperation(d, a.method, a.path),
                                        a.method, a.path, d)) }
                        [] req.name = "search_endpoints" ->
                             { ToolResult(formatEndpointsList(
                                   SearchFilter(extractEndpoints(d), a))) }
                        [] req.name = "get_schema_details" ->
                             IF SchemasOf(d) = Undefined
                                \/ Get(SchemasOf(d), a.schemaName) = Undefined
                             THEN { ToolResult(<< [line |-> "schema-not-found",
                                                   name |-> a.schemaName] >>) }
                             ELSE { ToolResult(<< [line |-> "schema-heading",
                                                   name |-> a.schemaName],
                                                  [line |-> "json",
                                                   value |-> Get(SchemasOf(d),
                                                                 a.schemaName)] >>) }

\* an exchange of ReadResource or CallTool is in progress
Serving == request.kind \in {"ReadResource", "CallTool"}

GuideRead ==
    /\ Acquired
    /\ request = [kind |-> "ReadResource", uri |-> "laravel-api://getting-started"]
    /\ response.channel = "result"

C16_GuideCounts ==
    GuideRead =>
        LET text == response.text
            stats == text[2]
            sample == text[3].value
            T == DeclaredTags(Doc)
            D == Declared(Doc)
            open == { pm \in D : ~EffectiveAuth(Doc, OperationAt(Doc, pm)) }
        IN  /\ stats.line = "stats" /\ text[3].line = "tag-sample"
            /\ stats.total = Cardinality(D)
            /\ stats.public = Cardinality(open)
            /\ stats.protected = Cardinality(D \ open)
            /\ stats.public + stats.protected = stats.total
            /\ stats.tags = Cardinality(T)
            /\ stats.schemas = Cardinality(SchemaNames(Doc))
            /\ Len(sample) = IF Cardinality(T) > 10 THEN 10 ELSE Cardinality(T)
            /\ \A i, j \in 1..Len(sample) : i < j => StrLess(sample[i], sample[j])
            /\ \A i \in 1..Len(sample) : sample[i] \in T
            /\ \A t \in T : (\A i \in 1..Len(sample) : sample[i] # t) =>
                                \A i \in 1..Len(sample) : StrLess(sample[i], t)
            /\ Cardinality(T) > 10 <=> \E k \in 1..Len(text) : text[k].line = "more-tags"
            /\ \A k \in 1..Len(text) :
                  text[k].line = "more-tags" => text[k].count = Cardinality(T) - 10

\* twelve tags declared: ten shown, a remainder of two
C16_Witness ==
    /\ GuideRead
    /\ Cardinality(DeclaredTags(Doc)) = 12
    /\ Len(response.text[3].value) = 10
    /\ response.text[4].line = "more-tags"
    /\ response.text[4].count = 2
    /\ response.text[2].total = 2


(***************************************************************************)
(* C17: ListResources returns exactly 4 resources and ListTools exactly 3  *)
(* tools, without repetition; with the document acquired, ReadResource     *)
(* answers a listed URI with a result and CallTool never answers a listed  *)
(* name with "Unknown tool"; a URI or tool name that is not listed is      *)
(* answered with an error.                                                 *)
(***************************************************************************)
ListedUris == { resources[i].uri : i \in 1..Len(resources) }
ListedToolNames == { tools[i].name : i \in 1..Len(tools) }

C17_ListingsAgree ==
    /\ request.kind = "ListResources" =>
          /\ response.channel = "result"
          /\ Len(response.resources) = 4
          /\ { response.resources[i].uri : i \in 1..4 } = ListedUris
          /\ Cardinality(ListedUris) = 4
    /\ request.kind = "ListTools" =>
          /\ response.channel = "result"
          /\ Len(response.tools) = 3
          /\ { response.tools[i].name : i \in 1..3 } = ListedToolNames
          /\ Cardinality(ListedToolNames) = 3
    /\ request.kind = "ReadResource" =>
          IF request.uri \in ListedUris
          THEN Acquired => /\ response.channel = "result"
                           /\ response.uri = request.uri
          ELSE response.channel = "error"
    /\ request.kind = "CallTool" =>
          IF request.name \in ListedToolNames
          THEN Acquired => response # Thrown("Unknown tool")
          ELSE response.channel = "error"

\* with the document acquired, a URI that is not listed is rejected
C17_Witness ==
    /\ Acquired
    /\ request.kind = "ReadResource"
    /\ request.uri \notin ListedUris
    /\ response = Thrown("Unknown resource")


(***************************************************************************)
(* C18: resolveSchemaRef returns, without throwing, the schema stored      *)
(* under Name when the reference is exactly '#/components/schemas/Name'    *)
(* with Name a single segment that is a key of components.schemas, and     *)
(* the not-found value for every other reference.                          *)
(***************************************************************************)
\* resolveSchemaRef has been applied to the reference request.ref
Resolved == Acquired /\ request.kind = "resolveSchemaRef"

\* the names of d that the reference ref names in the exact shape
NamedBy(d, ref) ==
    { n \in SchemaNames(d) :
        /\ ref = RefPrefix \o n
        /\ \A i \in 1..Len(n) : n[i] # 47 }

C18_ResolveExactShape ==
    Resolved =>
        /\ response.channel = "return"
        /\ IF NamedBy(Doc, request.ref) # {}
           THEN \E n \in NamedBy(Doc, request.ref) :
                    response.value = Doc.components.schemas[n]
           ELSE response.value = [kind |-> "null"]


(***************************************************************************)
(* Vocabulary of the purity properties.                                    *)
(***************************************************************************)
\* the exchange in progress repeats the recorded one: same request, over a
\* source that holds the same document, and both were answered with a result
Repeated ==
    /\ Serving
    /\ last # NoExchange
    /\ last.request = request
    /\ last.source = source
    /\ response.channel = "result"

\* the request reads the getting-started resource
GuideRequest ==
    request = [kind |-> "ReadResource", uri |-> "laravel-api://getting-started"]

\* the text t without its final line, which shows the time of the rendering
BeforeClockLine(t) == SubSeq(t, 1, Len(t) - 1)

\* a handler takes a request and answers it
HandlerStep == Idle /\ ~Idle'

(***************************************************************************)
(* C19: every rendering is pure: a request repeated over the same document *)
(* with the same arguments, at another time and after other requests, has  *)
(* the same answer as before, and answering changes no state.              *)
(***************************************************************************)
C19_RenderingsPure ==
    [][HandlerStep => /\ source' = source /\ last' = last
                      /\ Repeated' => response' = last'.response]_vars

(***************************************************************************)
(* C19 as amended: the renderings of the endpoint list, of an endpoint and *)
(* of a schema are pure; the getting-started summary is the same text up   *)
(* to its final line, which shows the time of the rendering; answering     *)
(* changes no state.                                                       *)
(***************************************************************************)
\* the answer in progress is the recorded one, up to the clock line of the
\* summary
SameButForClock ==
    IF GuideRequest
    THEN /\ BeforeClockLine(response.text) = BeforeClockLine(last.response.text)
         /\ response.text[Len(response.text)].line = "last-fetched"
         /\ [response EXCEPT !.text = <<>>] = [last.response EXCEPT !.text = <<>>]
    ELSE response = last.response

C19_PureButForClock ==
    [][HandlerStep => /\ source' = source /\ last' = last
                      /\ Repeated' => SameButForClock']_vars

\* the summary read twice over the same document at two instants: the two
\* texts differ
C19_Witness ==
    /\ Repeated
    /\ GuideRequest
    /\ response # last.response

(***************************************************************************)
(* C20: when the request-body schema of the rendered operation is a        *)
(* reference to an existing component schema, the schema block of the      *)
(* request body shows the content of that component schema, the            *)
(* references inside it left as they are stored.                           *)
(***************************************************************************)
\* the schema of the first content type of the request body of op
BodySchema(op) == op.requestBody.content[1].value.schema

C20_OneLevelResolution ==
    DetailsRendered =>
        \A pm \in DeclaredFor(Doc, request.arguments.method, request.arguments.path) :
            LET op == OperationAt(Doc, pm)
                text == response.text
            IN  (/\ "requestBody" \in DOMAIN op
                 /\ "$ref" \in DOMAIN BodySchema(op)
                 /\ Resolvable(Doc, BodySchema(op)["$ref"])) =>
                    \E k \in JsonLines(text) :
                        /\ k > 2
                        /\ text[k - 2].line = "body-required"
                        /\ \E n \in SchemaNames(Doc) :
                              /\ BodySchema(op)["$ref"] = RefPrefix \o n
                              /\ text[k].value = Doc.components.schemas[n]


(***************************************************************************)
(* C21: the detail view of an operation declared under one of the eight    *)
(* methods reads "Authentication Required: Yes" iff the record of the      *)
(* index for the same method and path has requiresAuth true, and iff the   *)
(* line of that record in the endpoint list is shown as locked.            *)
(***************************************************************************)
\* the line of the detail view that states the authentication requirement
AuthLine(text) == text[CHOOSE n \in 1..Len(text) : text[n].line = "auth"]

C21_AuthViewsAgree ==
    DetailsRendered =>
        \A pm \in DeclaredFor(Doc, request.arguments.method, request.arguments.path) :
            LET yes == AuthLine(response.text).required
                list == formatEndpointsList(Index)
            IN  /\ \E i \in 1..Len(Index) : RecordOf(Doc, Index[i], pm)
                /\ \A i \in 1..Len(Index) :
                      RecordOf(Doc, Index[i], pm) =>
                          /\ Index[i].requiresAuth <=> yes
                          /\ \E n \in ItemLines(list) : LineOf(list[n], Index[i])
                          /\ \A n \in ItemLines(list) :
                                LineOf(list[n], Index[i]) => (list[n].locked <=> yes)

\* an operation with an empty security list under a non-empty global
\* security: all three views show it public, beside a protected operation
C21_Witness ==
    /\ DetailsRendered
    /\ "security" \in DOMAIN Doc /\ Doc.security # <<>>
    /\ ~AuthLine(response.text).required
    /\ \E pm \in DeclaredFor(Doc, request.arguments.method, request.arguments.path) :
          /\ "security" \in DOMAIN OperationAt(Doc, pm)
          /\ OperationAt(Doc, pm).security = <<>>
    /\ \E i \in 1..Len(Index) : Index[i].requiresAuth


(***************************************************************************)
(* C22: the index and the lookup agree.  Every record of the index is      *)
(* found by findOperation under the record's method and path, which        *)
(* yields the operation the record comes from; and whenever                *)
(* get_endpoint_details renders details, the index holds exactly one       *)
(* record with the requested path and, case aside, the requested method.   *)
(***************************************************************************)
\* the positions of the index whose record has path p and, case aside,
\* method m
IndexedAs(m, p) ==
    { i \in 1..Len(Index) : Index[i].path = p /\ SameWord(Index[i].method, m) }

C22_IndexLookupAgree ==
    /\ ListedEndpoints =>
          \A k \in 1..Len(endpoints) :
              \E pm \in Declared(Doc) :
                  /\ RecordOf(Doc, endpoints[k], pm)
                  /\ findOperation(Doc, endpoints[k].method, endpoints[k].path)
                        = OperationAt(Doc, pm)
    /\ DetailsRendered =>
          Cardinality(IndexedAs(request.arguments.method, request.arguments.path)) = 1


(***************************************************************************)
(* C23: in a rendered list, a record is listed under a heading exactly     *)
(* once when the heading is one of its tags (or is "Untagged" and the      *)
(* record has no tags or an empty tags list) and not at all otherwise,     *)
(* also when its tags list repeats a tag; the number of endpoint lines is  *)
(* the sum over the records of the number of their distinct tags, an       *)
(* untagged record counting 1.                                             *)
(***************************************************************************)
\* the headings under which the record r belongs
GroupsFor(r) ==
    IF Tagless(r) THEN { s_Untagged } ELSE { r.tags[k] : k \in 1..Len(r.tags) }

\* the lines of the text that show the record r under the heading T
LinesUnder(text, r, T) ==
    { n \in ItemLines(text) : GroupAt(text, n) = T /\ LineOf(text[n], r) }

C23_OncePerDistinctTag ==
    ListRendered =>
        LET text == response.text
            hs == Headings(text)
        IN  /\ \A i \in 1..Len(endpoints) :
                  \A h \in 1..Len(hs) :
                      Cardinality(LinesUnder(text, endpoints[i], hs[h]))
                          = IF hs[h] \in GroupsFor(endpoints[i]) THEN 1 ELSE 0
            /\ Cardinality(ItemLines(text))
                  = Cardinality({ it \in (1..Len(endpoints)) \X { hs[h] : h \in 1..Len(hs) } :
                                    it[2] \in GroupsFor(endpoints[it[1]]) })

====
